---- MODULE Spec2Model ----
(***************************************************************************)
(* Button-click example: server.js (given in readme.md, parts 3-5) and     *)
(* public/client.js.                                                       *)
(*                                                                         *)
(* The server connects to MongoDB, then listens; POST /clicked saves one   *)
(* {clickTime} document into the clicks collection, GET /clicks returns    *)
(* the whole collection.  The browser client posts on each button click    *)
(* and polls GET /clicks from a setInterval callback, showing the length   *)
(* of the returned array.                                                  *)
(*                                                                         *)
(* Every asynchronous step of the code is one action: the connect          *)
(* callback, each route handler, the store's execution of a save or a      *)
(* find, each driver callback, each fetch promise settling in the client.  *)
(***************************************************************************)
EXTENDS Integers, Sequences, FiniteSets

\* ------------------------------------------------------------------ bounds
MaxRequests == 3     \* requests the client issues in a run, clicks and ticks together
MaxTime == 0         \* server clock readings range over 0..MaxTime

PostIds == 1..MaxRequests      \* POST /clicked requests, in the order clicked
PollIds == 1..MaxRequests      \* GET /clicks requests, in the order of the ticks

\* -------------------------------------------------------------- constants
\* index.html: <p id="counter">Loading button click data.</p> -- no count yet
NoCount == -1

VARIABLES
    serverPc,    \* "connecting" | "listening" | "stopped"
    db,          \* the shared handle: "undefined" | "database"
    clock,       \* last value new Date() returned on the server
    nextOid,     \* ObjectIds handed out by the driver so far
    clicks,      \* the clicks collection, in store-native (insertion) order
    posts,       \* POST /clicked requests, by id
    polls,       \* GET /clicks requests, by id
    displayed,   \* the count shown in #counter, NoCount while "Loading..."
    readOrder,   \* history: poll ids in the order the store executed their find
    lastShown    \* history: the poll whose answer #counter shows, 0 if none

vars == <<serverPc, db, clock, nextOid, clicks, posts, polls, displayed,
          readOrder, lastShown>>

\* ------------------------------------------------------------------ values
NoDoc == [_id |-> -1, clickTime |-> -1]

\* A document of the collection as the driver stores it.
Doc(oid, t) == [_id |-> oid, clickTime |-> t]

\* Date.prototype.toJSON: a Date becomes an ISO-8601 string, no longer a Date.
IsoString(t) == <<"ISO", t>>

\* res.send(result) on an array: JSON, element by element, Dates as strings;
\* response.json() parses it back to an array of the same length.
ToJSON(docs) ==
    [i \in DOMAIN docs |-> [_id |-> docs[i]._id,
                            clickTime |-> IsoString(docs[i].clickTime)]]

\* response.ok of the Fetch API: status in 200..299.
ResponseOk(status) == status >= 200 /\ status <= 299

\* A POST whose save callback has not run yet.
PostInFlight(p) == posts[p].pc \in {"sent", "handled", "stored"}

\* A POST whose save callback ran with err although its document is stored.
StoredDespiteErr(p) ==
    posts[p].pc = "hung" /\ \E i \in DOMAIN clicks : clicks[i] = posts[p].click

\* The requests the client has issued so far.
Issued ==
    Cardinality({p \in PostIds : posts[p].pc # "idle"})
        + Cardinality({g \in PollIds : polls[g].pc # "idle"})

\* pc: where the request is on the server ("hung": its callback ran and sent
\* no response); status: the response sent, 0 while there is none.
IdlePost ==
    [pc |-> "idle", err |-> FALSE, status |-> 0, click |-> NoDoc]

\* cl: where the poll's fetch is in the client: "pending" until the first
\* .then has run, "parsing" while response.json() is pending, then "shown",
\* or "failed" once .catch has run.  k201, kErr and nOverlap are history:
\* the POSTs answered 201 when the poll was issued, the records then stored
\* by POSTs whose save had reported an error, and the POSTs in flight at some
\* moment between the poll's issue and the store's execution of its find.
IdlePoll ==
    [pc |-> "idle", cl |-> "none", err |-> FALSE, result |-> <<>>, status |-> 0,
     body |-> <<>>, k201 |-> 0, kErr |-> 0, nOverlap |-> 0]

\* -------------------------------------------------------------------- Init
Init ==
    /\ serverPc = "connecting"
    /\ db = "undefined"
    /\ clock = 0
    /\ nextOid = 1
    /\ clicks = <<>>
    /\ posts = [p \in PostIds |-> IdlePost]
    /\ polls = [g \in PollIds |-> IdlePoll]
    /\ displayed = NoCount
    /\ readOrder = <<>>
    /\ lastShown = 0

\* ----------------------------------------------------------------- server
\* Variant: the early return on err is missing, the server listens anyway.
ConnectCallbackListensAnyway(err) ==
    /\ serverPc = "connecting"
    /\ db' = IF err THEN "undefined" ELSE "database"
    /\ serverPc' = "listening"
    /\ UNCHANGED <<clock, nextOid, clicks, posts, polls, displayed, readOrder,
                   lastShown>>

\* MongoClient.connect(url, (err, database) => {...})
ConnectCallback(err) ==
    /\ serverPc = "connecting"
    /\ IF err
         THEN /\ serverPc' = "stopped"          \* return console.log(err)
              /\ db' = db
         ELSE /\ db' = "database"               \* db = database
              /\ serverPc' = "listening"        \* app.listen(8080, ...)
    /\ UNCHANGED <<clock, nextOid, clicks, posts, polls, displayed, readOrder,
                   lastShown>>

\* Variant: the handler empties the collection (remove({})) before it saves
\* the new click, so that only the latest click is kept.
PostHandlerClearsFirst(p, t) ==
    /\ serverPc = "listening"
    /\ posts[p].pc = "sent"
    /\ t >= clock
    /\ IF db = "undefined"
         THEN /\ posts' = [posts EXCEPT ![p].pc = "responded", ![p].status = 500]
              /\ UNCHANGED <<clock, nextOid, clicks>>
         ELSE /\ clock' = t
              /\ clicks' = <<>>
              /\ posts' = [posts EXCEPT ![p].pc = "handled",
                                        ![p].click = Doc(nextOid, t)]
              /\ nextOid' = nextOid + 1
    /\ UNCHANGED <<serverPc, db, polls, displayed, readOrder, lastShown>>

\* app.post('/clicked', (req, res) => {...}) up to the call of save().
\* With db undefined, db.collection throws and Express answers 500.
PostHandler(p, t) ==
    /\ serverPc = "listening"
    /\ posts[p].pc = "sent"
    /\ t >= clock
    /\ IF db = "undefined"
         THEN /\ posts' = [posts EXCEPT ![p].pc = "responded", ![p].status = 500]
              /\ UNCHANGED <<clock, nextOid>>
         ELSE /\ clock' = t                                \* new Date()
              /\ posts' = [posts EXCEPT ![p].pc = "handled",
                                        ![p].click = Doc(nextOid, t)]
              /\ nextOid' = nextOid + 1
    /\ UNCHANGED <<serverPc, db, clicks, polls, displayed, readOrder, lastShown>>

\* Variant: save() behaves as an upsert keyed on clickTime, so a click with
\* the timestamp of a stored one replaces it instead of being added.
StoreSaveDedup(p, err, applied) ==
    /\ posts[p].pc = "handled"
    /\ ~err => applied
    /\ clicks' = IF applied /\ \A i \in DOMAIN clicks :
                                  clicks[i].clickTime # posts[p].click.clickTime
                   THEN Append(clicks, posts[p].click)
                   ELSE clicks
    /\ posts' = [posts EXCEPT ![p].pc = "stored", ![p].err = err]
    /\ UNCHANGED <<serverPc, db, clock, nextOid, polls, displayed, readOrder,
                   lastShown>>

\* save(click, cb) on a document without _id is one insert.  The store either
\* applies it, appending the document, or not; the callback will get err unset
\* only when it was applied.  With err set the server cannot tell which: an
\* insert can be rejected before it is applied, and an error (a lost
\* connection, a timeout) can be reported for an insert that was applied.
StoreSave(p, err, applied) ==
    /\ posts[p].pc = "handled"
    /\ ~err => applied
    /\ clicks' = IF applied THEN Append(clicks, posts[p].click) ELSE clicks
    /\ posts' = [posts EXCEPT ![p].pc = "stored", ![p].err = err]
    /\ UNCHANGED <<serverPc, db, clock, nextOid, polls, displayed, readOrder,
                   lastShown>>

\* Variant: the return on err is missing, 201 is sent whatever save() reported.
SaveCallbackAlways201(p) ==
    /\ posts[p].pc = "stored"
    /\ posts' = [posts EXCEPT ![p].pc = "responded", ![p].status = 201]
    /\ UNCHANGED <<serverPc, db, clock, nextOid, clicks, polls, displayed,
                   readOrder, lastShown>>

\* (err, result) => {...} of save(): on err only console.log(err), no response.
SaveCallback(p) ==
    /\ posts[p].pc = "stored"
    /\ posts' = IF posts[p].err
                  THEN [posts EXCEPT ![p].pc = "hung"]
                  ELSE [posts EXCEPT ![p].pc = "responded", ![p].status = 201]
    /\ UNCHANGED <<serverPc, db, clock, nextOid, clicks, polls, displayed,
                   readOrder, lastShown>>

\* app.get('/clicks', (req, res) => {...}) up to the call of find().toArray().
GetHandler(g) ==
    /\ serverPc = "listening"
    /\ polls[g].pc = "sent"
    /\ polls' = IF db = "undefined"
                  THEN [polls EXCEPT ![g].pc = "responded", ![g].status = 500]
                  ELSE [polls EXCEPT ![g].pc = "handled"]
    /\ UNCHANGED <<serverPc, db, clock, nextOid, clicks, posts, displayed,
                   readOrder, lastShown>>

\* Variant: findOne() in place of find(), at most the first document.
StoreFindOne(g, ok) ==
    /\ polls[g].pc = "handled"
    /\ polls' = [polls EXCEPT ![g].pc = "stored", ![g].err = ~ok,
                              ![g].result = IF ok /\ clicks # <<>>
                                              THEN <<clicks[1]>> ELSE <<>>]
    /\ readOrder' = Append(readOrder, g)
    /\ UNCHANGED <<serverPc, db, clock, nextOid, clicks, posts, displayed,
                   lastShown>>

\* The store executes find().toArray(): every document, in store order, or
\* an error.
StoreFind(g, ok) ==
    /\ polls[g].pc = "handled"
    /\ polls' = [polls EXCEPT ![g].pc = "stored", ![g].err = ~ok,
                              ![g].result = IF ok THEN clicks ELSE <<>>]
    /\ readOrder' = Append(readOrder, g)
    /\ UNCHANGED <<serverPc, db, clock, nextOid, clicks, posts, displayed,
                   lastShown>>

\* Variant: the return on err is missing, the (empty) result is sent with 200.
ToArrayCallbackAlwaysSends(g) ==
    /\ polls[g].pc = "stored"
    /\ polls' = [polls EXCEPT ![g].pc = "responded", ![g].status = 200,
                              ![g].body = ToJSON(polls[g].result),
                              ![g].result = <<>>]
    /\ UNCHANGED <<serverPc, db, clock, nextOid, clicks, posts, displayed,
                   readOrder, lastShown>>

\* (err, result) => {...} of toArray(): on err only console.log(err).
ToArrayCallback(g) ==
    /\ polls[g].pc = "stored"
    /\ polls' = IF polls[g].err
                  THEN [polls EXCEPT ![g].pc = "hung"]
                  ELSE [polls EXCEPT ![g].pc = "responded", ![g].status = 200,
                                     ![g].body = ToJSON(polls[g].result),
                                     ![g].result = <<>>]
    /\ UNCHANGED <<serverPc, db, clock, nextOid, clicks, posts, displayed,
                   readOrder, lastShown>>

\* ----------------------------------------------------------------- client
\* button click listener: fetch('/clicked', {method: 'POST'}).  The .then and
\* .catch of this fetch only write to the console and change no state.
Click(p) ==
    /\ Issued < MaxRequests
    /\ posts[p].pc = "idle"
    /\ \A q \in PostIds : q < p => posts[q].pc # "idle"
    /\ posts' = [posts EXCEPT ![p].pc = "sent"]
    /\ polls' = [g \in PollIds |->
                   IF polls[g].pc \in {"sent", "handled"}
                     THEN [polls[g] EXCEPT !.nOverlap = @ + 1]
                     ELSE polls[g]]
    /\ UNCHANGED <<serverPc, db, clock, nextOid, clicks, displayed, readOrder,
                   lastShown>>

\* Variant: the next fetch is issued only once the previous one has settled
\* (a setTimeout chained after the response instead of setInterval).
TickAfterPrevious(g) ==
    /\ Issued < MaxRequests
    /\ polls[g].pc = "idle"
    /\ \A h \in PollIds : h < g => polls[h].pc # "idle" /\ polls[h].cl \notin {"pending", "parsing"}
    /\ polls' = [polls EXCEPT
                   ![g].pc = "sent", ![g].cl = "pending",
                   ![g].k201 = Cardinality({p \in PostIds : posts[p].status = 201}),
                   ![g].kErr = Cardinality({p \in PostIds : StoredDespiteErr(p)}),
                   ![g].nOverlap = Cardinality({p \in PostIds : PostInFlight(p)})]
    /\ UNCHANGED <<serverPc, db, clock, nextOid, clicks, posts, displayed,
                   readOrder, lastShown>>

\* setInterval callback: fetch('/clicks', {method: 'GET'}), every tick,
\* whatever became of the earlier fetches.
Tick(g) ==
    /\ Issued < MaxRequests
    /\ polls[g].pc = "idle"
    /\ \A h \in PollIds : h < g => polls[h].pc # "idle"
    /\ polls' = [polls EXCEPT
                   ![g].pc = "sent", ![g].cl = "pending",
                   ![g].k201 = Cardinality({p \in PostIds : posts[p].status = 201}),
                   ![g].kErr = Cardinality({p \in PostIds : StoredDespiteErr(p)}),
                   ![g].nOverlap = Cardinality({p \in PostIds : PostInFlight(p)})]
    /\ UNCHANGED <<serverPc, db, clock, nextOid, clicks, posts, displayed,
                   readOrder, lastShown>>

\* First .then handler of the GET fetch: an ok response is handed to
\* response.json(), whose promise settles in a later turn of the event loop;
\* any other response throws into .catch, which logs.
PollThen1(g) ==
    /\ polls[g].cl = "pending"
    /\ polls[g].pc = "responded"
    /\ polls' = [polls EXCEPT ![g].cl = IF ResponseOk(polls[g].status)
                                          THEN "parsing" ELSE "failed"]
    /\ UNCHANGED <<serverPc, db, clock, nextOid, clicks, posts, displayed,
                   readOrder, lastShown>>

\* Variant: the count shown is one more than the length of the array.
PollThen2OffByOne(g) ==
    /\ polls[g].cl = "parsing"
    /\ displayed' = Len(polls[g].body) + 1
    /\ lastShown' = g
    /\ polls' = [polls EXCEPT ![g].cl = "shown"]
    /\ UNCHANGED <<serverPc, db, clock, nextOid, clicks, posts, readOrder>>

\* Second .then handler of the GET fetch, run once response.json() has
\* fulfilled: the length of the parsed array is written into #counter.
PollThen2(g) ==
    /\ polls[g].cl = "parsing"
    /\ displayed' = Len(polls[g].body)
    /\ lastShown' = g
    /\ polls' = [polls EXCEPT ![g].cl = "shown"]
    /\ UNCHANGED <<serverPc, db, clock, nextOid, clicks, posts, readOrder>>

\* The GET fetch rejects (network error), or response.json() rejects (the
\* body cannot be read): .catch logs the error.
PollReject(g) ==
    /\ polls[g].cl \in {"pending", "parsing"}
    /\ polls' = [polls EXCEPT ![g].cl = "failed"]
    /\ UNCHANGED <<serverPc, db, clock, nextOid, clicks, posts, displayed,
                   readOrder, lastShown>>

\* -------------------------------------------------------------------- Next
Next ==
    \/ \E err \in BOOLEAN : ConnectCallback(err)
    \/ \E p \in PostIds, t \in 0..MaxTime : PostHandler(p, t)
    \/ \E p \in PostIds, err \in BOOLEAN, applied \in BOOLEAN : StoreSave(p, err, applied)
    \/ \E p \in PostIds : SaveCallback(p)
    \/ \E g \in PollIds : GetHandler(g)
    \/ \E g \in PollIds, ok \in BOOLEAN : StoreFind(g, ok)
    \/ \E g \in PollIds : ToArrayCallback(g)
    \/ \E p \in PostIds : Click(p)
    \/ \E g \in PollIds : Tick(g)
    \/ \E g \in PollIds : PollThen1(g)
    \/ \E g \in PollIds : PollThen2(g)
    \/ \E g \in PollIds : PollReject(g)

Spec == Init /\ [][Next]_vars

\* ------------------------------------------------------------ vocabulary
\* The POSTs whose insert the store has executed successfully.
InsertSucceeded(p) ==
    posts[p].pc \in {"stored", "responded"} /\ ~posts[p].err /\ posts[p].click # NoDoc

\* The save callback, or the toArray callback, of the request has run.
PostCallbackRan(p) == posts[p].pc \in {"responded", "hung"}
PollCallbackRan(g) == polls[g].pc \in {"responded", "hung"}

\* The positions of a document in the collection.
Occurrences(doc) == {i \in DOMAIN clicks : clicks[i] = doc}

IsPrefix(s, t) == Len(s) <= Len(t) /\ \A i \in DOMAIN s : s[i] = t[i]

\* A response body that is the serialisation of some earlier collection.
WellFormed(body) == IsPrefix(body, ToJSON(clicks))

\* The store executed g's find before h's.
ReadBefore(g, h) ==
    \E i, j \in DOMAIN readOrder : i < j /\ readOrder[i] = g /\ readOrder[j] = h

\* The step is the store's successful execution of p's insert.
InsertStep(p) ==
    posts[p].pc = "handled" /\ posts'[p].pc = "stored" /\ ~posts'[p].err

\* The step is the store's execution of p's insert, whatever it reports.
StoreStep(p) == posts[p].pc = "handled" /\ posts'[p].pc = "stored"

\* The POSTs whose save has been executed by the store, whatever it reported.
PastStore(p) == posts[p].pc \in {"stored", "responded", "hung"} /\ posts[p].click # NoDoc

\* The step is the client showing the answer of poll g.
ShowStep(g) == polls[g].cl = "parsing" /\ polls'[g].cl = "shown"

\* ------------------------------------------------------------------ claims

\* C1: every request gets exactly one response, also when the store operation
\* fails: once the save callback of a POST /clicked (or the toArray callback of
\* a GET /clicks) has run, a response has been sent, and a POST whose insert
\* failed was answered with a 5xx status.
C1_EveryRequestAnswered ==
    /\ \A p \in PostIds :
          PostCallbackRan(p) =>
              /\ posts[p].status # 0
              /\ posts[p].err => posts[p].status \in 500..599
    /\ \A g \in PollIds : PollCallbackRan(g) => polls[g].status # 0

\* C2: a POST /clicked whose insert succeeds grows the collection by exactly
\* its one record and is answered 201; a POST answered 201 has its record in
\* the collection, exactly once, from before the response on.
C2_SuccessfulPostAddsOneRecord ==
    /\ [](\A p \in PostIds :
            /\ posts[p].status = 201 => Cardinality(Occurrences(posts[p].click)) = 1
            /\ PostCallbackRan(p) /\ ~posts[p].err /\ posts[p].click # NoDoc
                   => posts[p].status = 201)
    /\ [][\A p \in PostIds :
            InsertStep(p) => clicks' = Append(clicks, posts[p].click)]_vars

\* C2 witness: a POST answered 201 next to a POST whose insert failed.
C2_Witness ==
    \E p, q \in PostIds :
        /\ posts[p].status = 201 /\ posts[p].click \in {clicks[i] : i \in DOMAIN clicks}
        /\ posts[q].pc = "hung" /\ posts[q].err

\* C3: when the read of a GET /clicks fails, the server answers with a 5xx
\* status and sends no list of records.
C3_FailedReadAnswered5xx ==
    \A g \in PollIds :
        PollCallbackRan(g) /\ polls[g].err =>
            polls[g].status \in 500..599 /\ polls[g].body = <<>>

C5_OneRecordPerInsert ==
    /\ \A p \in PostIds :
          InsertSucceeded(p) => Cardinality(Occurrences(posts[p].click)) = 1
    /\ \A i, j \in DOMAIN clicks : clicks[i]._id = clicks[j]._id => i = j
    /\ \A i \in DOMAIN clicks :
          \E p \in PostIds : PastStore(p) /\ posts[p].click = clicks[i]
    /\ Cardinality({p \in PostIds : InsertSucceeded(p)}) <= Len(clicks)
    /\ (\A p \in PostIds : ~posts[p].err) =>
          Len(clicks) = Cardinality({p \in PostIds : InsertSucceeded(p)})

\* C5 witness: two POSTs in flight together, with the same clickTime, both
\* inserted, and two new records.
C5_Witness ==
    \E p, q \in PostIds :
        /\ p # q
        /\ posts[p].pc = "stored" /\ posts[q].pc = "stored"
        /\ InsertSucceeded(p) /\ InsertSucceeded(q)
        /\ posts[p].click.clickTime = posts[q].click.clickTime
        /\ Len(clicks) = 2

\* C6: a GET /clicks handled while exactly one POST /clicked is in flight,
\* with K records stored by then from everything but that POST (those of the
\* POSTs answered 201 and those stored by a save that reported an error), is
\* answered, if at all, with 200 and a well-formed sequence of length K or
\* K + 1.
C6_ConcurrentGetLength ==
    \A g \in PollIds :
        polls[g].pc = "responded" /\ polls[g].nOverlap = 1 =>
            /\ polls[g].status = 200
            /\ WellFormed(polls[g].body)
            /\ Len(polls[g].body) \in {polls[g].k201 + polls[g].kErr,
                                       polls[g].k201 + polls[g].kErr + 1}

\* C6 witness: two GETs overlapping the same in-flight POST, one answered
\* without its record and one with it.
C6_Witness ==
    \E g, h \in PollIds :
        /\ polls[g].pc = "responded" /\ polls[g].nOverlap = 1
        /\ polls[h].pc = "responded" /\ polls[h].nOverlap = 1
        /\ polls[g].k201 = polls[h].k201 /\ polls[g].kErr = polls[h].kErr
        /\ Len(polls[g].body) = polls[g].k201 + polls[g].kErr
        /\ Len(polls[h].body) = polls[h].k201 + polls[h].kErr + 1

\* C7: the server listens only with the handle assigned; a request is handled
\* only with the handle assigned and never meets an unset one; after a failed
\* connect the server never listens and handles nothing; a handle once
\* assigned is never assigned again.
C7_InitBeforeServe ==
    /\ [](serverPc = "listening" => db = "database")
    /\ [](\A p \in PostIds : posts[p].pc \notin {"idle", "sent"} =>
              db = "database" /\ serverPc = "listening" /\ posts[p].status # 500)
    /\ [](\A g \in PollIds : polls[g].pc \notin {"idle", "sent"} =>
              db = "database" /\ serverPc = "listening" /\ polls[g].status # 500)
    /\ [][db # "undefined" => db' = db]_vars
    /\ [][serverPc # "connecting" => serverPc' = serverPc]_vars

\* C7 witness: both handlers have run, on the assigned handle.
C7_Witness ==
    /\ db = "database"
    /\ \E p \in PostIds : posts[p].pc = "handled"
    /\ \E g \in PollIds : polls[g].pc = "handled"

\* C8: while the run's request budget lasts, the next poll can always be
\* issued, whatever earlier polls failed or are unanswered; the displayed
\* count changes only when a poll's ok response is shown, and then becomes the
\* length of the sequence that poll returned; a failing poll leaves it as is.
C8_PollingClient ==
    /\ [](Issued < MaxRequests => \E g \in PollIds : ENABLED Tick(g))
    /\ [][displayed' # displayed =>
            \E g \in PollIds :
                /\ ShowStep(g)
                /\ polls[g].pc = "responded" /\ ResponseOk(polls[g].status)
                /\ displayed' = Len(polls[g].body)]_vars
    /\ [][\A g \in PollIds :
            polls[g].cl \in {"pending", "parsing"} /\ polls'[g].cl = "failed" =>
                displayed' = displayed]_vars

\* C8 witness: a poll was issued after an earlier one failed and while another
\* was left unanswered, and its answer replaced "Loading..." by its length.
C8_Witness ==
    \E f, u, g \in PollIds :
        /\ f < g /\ u < g
        /\ polls[f].cl = "failed"
        /\ polls[u].cl = "pending" /\ polls[u].pc = "hung"
        /\ polls[g].cl = "shown" /\ lastShown = g
        /\ displayed = Len(polls[g].body) /\ displayed # NoCount

\* C9 as stated: the collection is append-only: every step leaves the stored
\* documents in place, the only step that changes the collection is a
\* successful insert, which appends that POST's one document, and a GET
\* /clicks or a failed insert leaves it unchanged.
C9_FailedWriteStoresNothing ==
    /\ [][IsPrefix(clicks, clicks') /\ Len(clicks') >= Len(clicks)]_vars
    /\ [][clicks' # clicks =>
            \E p \in PostIds :
                InsertStep(p) /\ clicks' = Append(clicks, posts[p].click)]_vars
    /\ [][\A p \in PostIds : StoreStep(p) /\ posts'[p].err => clicks' = clicks]_vars

\* C9 amended: the collection is append-only: every step leaves the stored
\* documents in place and the size never decreases; the only step that
\* changes the collection is the store's execution of a POST's save, which
\* appends that POST's one whole document, at most once per POST; every other
\* step of a POST /clicked or a GET /clicks leaves it unchanged.
C9_AppendOnly ==
    /\ [][IsPrefix(clicks, clicks') /\ Len(clicks') >= Len(clicks)]_vars
    /\ [][clicks' # clicks =>
            \E p \in PostIds :
                StoreStep(p) /\ clicks' = Append(clicks, posts[p].click)]_vars
    /\ [](\A p \in PostIds : Cardinality(Occurrences(posts[p].click)) <= 1)
    /\ [](\A p \in PostIds : ~PastStore(p) => Occurrences(posts[p].click) = {})

\* C9 witness: a POST whose save reported an error with its document stored,
\* one whose save reported an error with nothing stored, and an answered GET.
C9_Witness ==
    \E p, q \in PostIds, g \in PollIds :
        /\ posts[p].pc = "hung" /\ posts[p].err /\ Occurrences(posts[p].click) # {}
        /\ posts[q].pc = "hung" /\ posts[q].err /\ Occurrences(posts[q].click) = {}
        /\ polls[g].pc = "responded"
        /\ clicks = <<posts[p].click>>

\* C10 as stated: the displayed count never decreases from one update to the
\* next, is a size the collection had, and never exceeds the stored records.
C10_DisplayNeverDecreases ==
    /\ [][displayed' >= displayed]_vars
    /\ [](displayed # NoCount => 0 <= displayed /\ displayed <= Len(clicks))

\* C10 amended: the displayed count is a size the collection had at an earlier
\* moment and never exceeds the stored records; it does not decrease when the
\* answer shown comes from a find executed after the find of the answer shown
\* before it.
C10_DisplayStaleButBounded ==
    /\ [](displayed # NoCount => 0 <= displayed /\ displayed <= Len(clicks))
    /\ [](lastShown # 0 => displayed = Len(polls[lastShown].body))
    /\ [][\A g \in PollIds :
            ShowStep(g) /\ (lastShown = 0 \/ ReadBefore(lastShown, g)) =>
                displayed' >= displayed]_vars

\* C10 witness: two polls outstanding at once, answered in the order of their
\* finds, the count going from 0 to 1.
C10_Witness ==
    \E g, h \in PollIds :
        /\ ReadBefore(g, h)
        /\ polls[g].cl = "shown" /\ Len(polls[g].body) = 0
        /\ polls[h].cl = "shown" /\ lastShown = h /\ displayed = 1
        /\ polls[h].nOverlap = 1 /\ polls[g].nOverlap = 1

====
